---------------------------- MODULE Spec2Model ----------------------------
(***************************************************************************)
(* Model of the guvenduy backend: the alert service (notifiable classes,   *)
(* alert creation, radius search), the prediction retention policy and the *)
(* model-loading orchestrator.                                             *)
(*                                                                         *)
(* Numbers.  Python floats are modelled on integer grids:                  *)
(*   - confidences in hundredths (0..100 stands for 0.00..1.00);           *)
(*   - latitudes and longitudes in microdegrees;                           *)
(*   - distances and radii in metres (1 km = 1000);                        *)
(*   - angles in radians and the values of sin/cos/asin/sqrt in 1e-9 fixed *)
(*     point (the value v stands for v / 10^9).                            *)
(* Optional[T] is a sequence: <<>> is None, <<v>> is the value v.          *)
(***************************************************************************)
EXTENDS Integers, Sequences, FiniteSets, TLC

VARIABLES
    notifiable_classes,  \* table notifiable_classes, in id order
    alerts,              \* table alerts, in id order
    audit,               \* history: per alert id, the class row its request read
    now,                 \* the reading of datetime.utcnow(), in clock ticks (hours)
    last,                \* the last request handled and its response
    predictions,         \* table last_predictions, in id order
    next_prediction_id,  \* autoincrement counter of last_predictions
    model,               \* app.model.model
    base_model,          \* app.model.base_model
    model_ready,         \* app.model.model_ready
    loader,              \* per thread: position inside load_model and its caller
    pending,             \* predict requests past the gate, awaiting the upload
    loads_started,       \* history: number of load_model calls made so far
    loads_returned,      \* history: number of load_model calls that returned
    training_tasks,      \* routers/training.training_tasks, in task order
    trainer,             \* per training task: run_training_task's position and
                         \* its SoundClassificationTrainer
    executor,            \* process_audio_files: the batch submitted to the
                         \* pool, the futures collected, all_images, all_labels
    upload_dir,          \* the *.wav files of UPLOAD_DIR, oldest first
    next_file_id,        \* history: names the next file created in UPLOAD_DIR
    uploads,             \* routers/audio.predict_sound requests awaiting
                         \* save_upload_file: the file each is writing
    users                \* table users, in id order: each account's privilege

vars == <<notifiable_classes, alerts, audit, now, last, predictions,
          next_prediction_id, model, base_model, model_ready, loader,
          pending, loads_started, loads_returned, training_tasks, trainer,
          executor, upload_dir, next_file_id, uploads, users>>

alertVars == <<notifiable_classes, alerts, audit, now>>
predictionVars == <<predictions, next_prediction_id>>
userVars == <<users>>
modelVars == <<model, base_model, model_ready, loader, pending, loads_started,
               loads_returned>>
trainingVars == <<training_tasks, trainer, executor>>
fileVars == <<upload_dir, next_file_id, uploads>>

None == <<>>
Some(v) == <<v>>
Optional(S) == {None} \cup {Some(v) : v \in S}

Abs(x) == IF x < 0 THEN -x ELSE x
Min2(a, b) == IF a <= b THEN a ELSE b

-----------------------------------------------------------------------------
(***************************************************************************)
(* Fixed-point arithmetic standing for math.radians/sin/cos/asin/sqrt on   *)
(* doubles.  ONE is 1.0.  Products are formed limb by limb so that no      *)
(* intermediate value leaves the 32-bit range.                             *)
(***************************************************************************)
ONE == 1000000000
HALF_PI == 1570796327
QUARTER_PI == 785398163
SQRT_HALF == 707106781

\* floor(a * b / ONE) for 0 <= a, b and a * b / ONE within range
Mul(a, b) ==
    LET a2 == a \div 1000000
        a1 == (a \div 1000) % 1000
        a0 == a % 1000
        b2 == b \div 1000000
        b1 == (b \div 1000) % 1000
        b0 == b % 1000
        low == (a1 * b0 + a0 * b1 + (a0 * b0) \div 1000) \div 1000
        mid == (a2 * b0 + a1 * b1 + a0 * b2 + low) \div 1000
    IN  a2 * b2 * 1000 + a2 * b1 + a1 * b2 + mid

\* sum of the alternating Taylor series whose k-th term is
\* term * x2 / (d(k) * (d(k) + 1)), d(k) = 2k + first
RECURSIVE Series(_, _, _, _, _)
Series(term, x2, k, first, sign) ==
    IF term = 0 \/ k > 8 THEN 0
    ELSE LET nxt == Mul(term, x2) \div ((2 * k + first) * (2 * k + first + 1))
         IN  sign * nxt + Series(nxt, x2, k + 1, first, -sign)

SinSeries(x) == x + Series(x, Mul(x, x), 1, 0, -1)
CosSeries(x) == ONE + Series(ONE, Mul(x, x), 1, -1, -1)

\* sin and cos of an angle in [0, pi/2] (argument reduction at pi/4)
sin(x) == IF x <= QUARTER_PI THEN SinSeries(x) ELSE CosSeries(HALF_PI - x)
cos(x) == IF x <= QUARTER_PI THEN CosSeries(x) ELSE SinSeries(HALF_PI - x)

\* math.radians of v microdegrees, 0 <= v <= 90 degrees: v * pi / 180
radians(v) == v * 17 + Mul(v, 453292520)
\* math.radians(v) / 2 for 0 <= v <= 180 degrees
half_radians(v) == v * 8 + Mul(v, 726646260)

\* math.sqrt on [0, ONE]: the largest h with h * h <= a
RECURSIVE SqrtSearch(_, _, _)
SqrtSearch(a, lo, hi) ==
    IF lo >= hi THEN lo
    ELSE LET m == (lo + hi + 1) \div 2
         IN  IF Mul(m, m) <= a THEN SqrtSearch(a, m, hi)
             ELSE SqrtSearch(a, lo, m - 1)
sqrt(a) == SqrtSearch(a, 0, ONE)

\* arcsine series h + h^3/6 + 3h^5/40 + ..., for 0 <= h <= sqrt(1/2)
RECURSIVE AsinSeries(_, _, _)
AsinSeries(term, h2, n) ==
    IF term = 0 \/ n >= 40 THEN 0
    ELSE LET t1 == (Mul(term, h2) * (2 * n + 1)) \div (2 * n + 2)
             nxt == (t1 * (2 * n + 1)) \div (2 * n + 3)
         IN  nxt + AsinSeries(nxt, h2, n + 1)

\* math.asin on [0, ONE]
asin(h) ==
    IF h <= SQRT_HALF THEN h + AsinSeries(h, Mul(h, h), 0)
    ELSE LET g == sqrt(ONE - Mul(h, h))
         IN  HALF_PI - (g + AsinSeries(g, Mul(g, g), 0))

EARTH_RADIUS_KM == 6371

\* calculate_distance: haversine great-circle distance, in metres.
\* sin(d/2)^2 is even and 360-degree periodic in d, which is the argument
\* reduction applied to dlat and dlon before the series is summed.
calculate_distance(lat1, lon1, lat2, lon2) ==
    LET dlon0 == Abs(lon2 - lon1)
        dlon == IF dlon0 > 180000000 THEN 360000000 - dlon0 ELSE dlon0
        dlat == Abs(lat2 - lat1)
        sdlat == sin(half_radians(dlat))
        sdlon == sin(half_radians(dlon))
        a == Mul(sdlat, sdlat)
             + Mul(Mul(cos(radians(Abs(lat1))), cos(radians(Abs(lat2)))),
                   Mul(sdlon, sdlon))
        half_c == asin(sqrt(Min2(a, ONE)))
    IN  2 * Mul(half_c, EARTH_RADIUS_KM * 1000)


-----------------------------------------------------------------------------
(***************************************************************************)
(* Alert service: app/routers/alerts.py over app/database.py.  Every       *)
(* handler is an async function without an await, so it runs to completion *)
(* on the event loop: one action per handler.                              *)
(***************************************************************************)
NoRow == [id |-> 0, class_name |-> "", min_confidence |-> 0, is_active |-> FALSE]

\* Query(...).filter(...).first()
First(rows) == IF rows = <<>> THEN NoRow ELSE rows[1]

get_notifiable_class_by_name(class_name) ==
    First(SelectSeq(notifiable_classes, LAMBDA c : c.class_name = class_name))

get_notifiable_class_by_id(class_id) ==
    First(SelectSeq(notifiable_classes, LAMBDA c : c.id = class_id))

\* database.create_notifiable_class: the table after the insert, or None when
\* the commit fails and is rolled back. class_name is a unique column, so the
\* commit of a second row with a stored name fails.
create_notifiable_class(class_name, min_confidence, db_ok) ==
    LET row == [id |-> Len(notifiable_classes) + 1, class_name |-> class_name,
                min_confidence |-> min_confidence, is_active |-> TRUE]
    IN  IF db_ok /\ \A i \in DOMAIN notifiable_classes :
                        notifiable_classes[i].class_name # class_name
        THEN Some(Append(notifiable_classes, row))
        ELSE None

\* The lookup of a handler that inserts without looking first
existing_class_unchecked(class_name) == NoRow

existing_class_of(class_name) == get_notifiable_class_by_name(class_name)

\* POST /alerts/classes
create_new_notifiable_class(class_name, min_confidence, db_ok) ==
    LET existing_class == existing_class_of(class_name)
        created == create_notifiable_class(class_name, min_confidence, db_ok)
        response(status) ==
            [op |-> "create_new_notifiable_class", class_name |-> class_name,
             classes_before |-> notifiable_classes, status |-> status]
    IN  /\ IF existing_class # NoRow
           THEN /\ last' = response(400)
                /\ UNCHANGED notifiable_classes
           ELSE IF created = None
           THEN /\ last' = response(500)
                /\ UNCHANGED notifiable_classes
           ELSE /\ notifiable_classes' = created[1]
                /\ last' = response(201)
        /\ UNCHANGED <<alerts, audit, now, predictionVars, userVars, modelVars,
                   trainingVars, fileVars>>

\* database.update_notifiable_class: the row after the update
updated_row(c, min_confidence, is_active) ==
    [c EXCEPT !.min_confidence = IF min_confidence # None THEN min_confidence[1] ELSE @,
              !.is_active = IF is_active # None THEN is_active[1] ELSE @]

\* PUT /alerts/classes/{class_id}
update_notifiable_class_endpoint(class_id, min_confidence, is_active, db_ok) ==
    LET notifiable_class == get_notifiable_class_by_id(class_id)
    IN  /\ IF notifiable_class = NoRow \/ ~db_ok
           THEN /\ last' = [op |-> "update_notifiable_class", status |-> 404]
                /\ UNCHANGED notifiable_classes
           ELSE /\ notifiable_classes' =
                       [i \in DOMAIN notifiable_classes |->
                           IF notifiable_classes[i].id = class_id
                           THEN updated_row(notifiable_classes[i], min_confidence, is_active)
                           ELSE notifiable_classes[i]]
                /\ last' = [op |-> "update_notifiable_class", status |-> 200]
        /\ UNCHANGED <<alerts, audit, now, predictionVars, userVars, modelVars,
                   trainingVars, fileVars>>

\* variants of should_alert: the active check left out; the threshold exclusive
should_alert_ignoring_active(notifiable_class, confidence) ==
    ~(confidence < notifiable_class.min_confidence)

should_alert_exclusive(notifiable_class, confidence) ==
    /\ notifiable_class.is_active
    /\ confidence > notifiable_class.min_confidence

\* create_new_alert, lines 189-200: the two checks made on the class row
should_alert(notifiable_class, confidence) ==
    /\ notifiable_class.is_active
    /\ ~(confidence < notifiable_class.min_confidence)

ALERT_VALIDITY_HOURS == 1

\* database.create_alert: the row inserted
create_alert(class_id, latitude, longitude, confidence, expires_at) ==
    [id |-> Len(alerts) + 1, class_id |-> class_id, latitude |-> latitude,
     longitude |-> longitude, confidence |-> confidence, is_verified |-> FALSE,
     created_at |-> now, expires_at |-> expires_at]

\* POST /alerts/create
create_new_alert(class_id, latitude, longitude, confidence, db_ok) ==
    LET notifiable_class == get_notifiable_class_by_id(class_id)
        expires_at == now + ALERT_VALIDITY_HOURS
        alert == create_alert(class_id, latitude, longitude, confidence, expires_at)
        status == IF notifiable_class = NoRow THEN 404
                  ELSE IF ~should_alert(notifiable_class, confidence) THEN 400
                  ELSE IF ~db_ok THEN 500
                  ELSE 201
    IN  /\ IF status = 201
           THEN /\ alerts' = Append(alerts, alert)
                /\ audit' = Append(audit, notifiable_class)
           ELSE UNCHANGED <<alerts, audit>>
        /\ last' = [op |-> "create_new_alert", class_id |-> class_id,
                    confidence |-> confidence, notifiable_class |-> notifiable_class,
                    status |-> status, stored |-> Len(alerts') - Len(alerts)]
        /\ UNCHANGED <<notifiable_classes, now, predictionVars, userVars, modelVars,
                   trainingVars, fileVars>>

\* the clock read by datetime.utcnow() advances
Tick ==
    /\ now' = now + 1
    /\ UNCHANGED <<notifiable_classes, alerts, audit, last, predictionVars, userVars, modelVars,
                   trainingVars, fileVars>>

-----------------------------------------------------------------------------
(***************************************************************************)
(* Radius search: database.get_alerts_in_radius behind GET /alerts/nearby. *)
(***************************************************************************)
KM_PER_DEGREE == 111

\* radius_deg = radius_km / 111.0, in microdegrees.  Coordinates are whole
\* microdegrees, so comparing against the floor is comparing against the
\* quotient itself.
radius_deg(radius_km) == (radius_km * 1000) \div KM_PER_DEGREE

\* variant of time_filter: "if hours_ago:" in place of "is not None"
time_filter_truthy(alert, hours_ago) ==
    (hours_ago # None /\ hours_ago[1] # 0) => alert.created_at >= now - hours_ago[1]

\* lines 523-525: the time filter
time_filter(alert, hours_ago) ==
    hours_ago # None => alert.created_at >= now - hours_ago[1]

\* lines 528-529: the class filter ("if class_ids:" is false for None and [])
class_filter(alert, class_ids) ==
    (class_ids # None /\ class_ids[1] # <<>>) =>
        \E i \in DOMAIN class_ids[1] : class_ids[1][i] = alert.class_id

\* lines 532-537: the bounding box
bounding_box(alert, latitude, longitude, radius_km) ==
    /\ alert.latitude >= latitude - radius_deg(radius_km)
    /\ alert.latitude <= latitude + radius_deg(radius_km)
    /\ alert.longitude >= longitude - radius_deg(radius_km)
    /\ alert.longitude <= longitude + radius_deg(radius_km)

\* the coordinates the specifications draw from: the query point and alert
\* positions north, south, east and north-east of it
QueryPoint == [latitude |-> 39925533, longitude |-> 32866287]
North5km == [latitude |-> 39970533, longitude |-> 32866287]
North15km == [latitude |-> 40060533, longitude |-> 32866287]
South2km == [latitude |-> 39905533, longitude |-> 32866287]
East8km == [latitude |-> 39925533, longitude |-> 32966287]
NorthEast11km == [latitude |-> 40005533, longitude |-> 32946287]
AlertPoints == {North5km, North15km, South2km, East8km, NorthEast11km}

\* calculate_distance tabulated over the coordinates in use
DistanceTable ==
    [q \in {QueryPoint}, p \in AlertPoints \cup {QueryPoint} |->
        calculate_distance(q.latitude, q.longitude, p.latitude, p.longitude)]

distance_from(latitude, longitude, alert) ==
    LET q == [latitude |-> latitude, longitude |-> longitude]
        p == [latitude |-> alert.latitude, longitude |-> alert.longitude]
    IN  IF <<q, p>> \in DOMAIN DistanceTable THEN DistanceTable[q, p]
        ELSE calculate_distance(latitude, longitude, alert.latitude, alert.longitude)

\* variant of haversine_filter: every candidate of the box is kept
haversine_filter_unchecked(potential_matches, latitude, longitude, radius_km) ==
    [i \in DOMAIN potential_matches |->
        [id |-> potential_matches[i].id,
         distance_km |-> distance_from(latitude, longitude, potential_matches[i])]]

\* lines 543-549: keep the candidates within radius_km, each with its distance
RECURSIVE haversine_filter(_, _, _, _)
haversine_filter(potential_matches, latitude, longitude, radius_km) ==
    IF potential_matches = <<>> THEN <<>>
    ELSE LET alert == Head(potential_matches)
             distance == distance_from(latitude, longitude, alert)
             rest == haversine_filter(Tail(potential_matches), latitude, longitude, radius_km)
         IN  IF distance <= radius_km
             THEN <<[id |-> alert.id, distance_km |-> distance]>> \o rest
             ELSE rest

\* list.sort(key=distance_km): stable, ascending
RECURSIVE insert_sorted(_, _)
insert_sorted(sorted, x) ==
    IF sorted = <<>> THEN <<x>>
    ELSE IF sorted[Len(sorted)].distance_km <= x.distance_km THEN Append(sorted, x)
    ELSE Append(insert_sorted(SubSeq(sorted, 1, Len(sorted) - 1), x), sorted[Len(sorted)])

\* variant of sort_by_distance: the list is left in query order
sort_by_distance_skipped(results) == results

RECURSIVE sort_by_distance(_)
sort_by_distance(results) ==
    IF results = <<>> THEN <<>>
    ELSE insert_sorted(sort_by_distance(SubSeq(results, 1, Len(results) - 1)),
                       results[Len(results)])

\* database.get_alerts_in_radius; db_ok = FALSE is the query raising, which
\* the except clause turns into an empty list
get_alerts_in_radius(latitude, longitude, radius_km, class_ids, hours_ago, db_ok) ==
    LET potential_matches ==
            SelectSeq(alerts, LAMBDA alert :
                /\ time_filter(alert, hours_ago)
                /\ class_filter(alert, class_ids)
                /\ bounding_box(alert, latitude, longitude, radius_km))
        results == haversine_filter(potential_matches, latitude, longitude, radius_km)
    IN  IF db_ok THEN sort_by_distance(results) ELSE <<>>

\* GET /alerts/nearby: whatever get_alerts_in_radius returns is the body of
\* a 200 response
get_nearby_alerts(latitude, longitude, radius_km, class_ids, hours_ago, db_ok) ==
    /\ last' = [op |-> "get_nearby_alerts", latitude |-> latitude,
                longitude |-> longitude, radius_km |-> radius_km,
                class_ids |-> class_ids, hours_ago |-> hours_ago, db_ok |-> db_ok,
                at |-> now, status |-> 200,
                results |-> get_alerts_in_radius(latitude, longitude, radius_km,
                                                 class_ids, hours_ago, db_ok)]
    /\ UNCHANGED <<alertVars, predictionVars, userVars, modelVars, trainingVars, fileVars>>

-----------------------------------------------------------------------------
(***************************************************************************)
(* Prediction retention: database.add_prediction.  The session is created  *)
(* with autoflush=False, so the row handed to db.add() is not in the table *)
(* when the trimming DELETE runs; it is inserted by db.commit().           *)
(***************************************************************************)
PREDICTION_LIMIT == 100

\* the rows whose created_at is minimal
oldest_rows(rows) ==
    {i \in DOMAIN rows : \A j \in DOMAIN rows : rows[i].created_at <= rows[j].created_at}

remove_at(rows, i) == SubSeq(rows, 1, i - 1) \o SubSeq(rows, i + 1, Len(rows))

\* lines 290-291: DELETE ... WHERE id NOT IN (SELECT id ORDER BY created_at
\* DESC LIMIT 100).  Rows with equal created_at are ordered as the database
\* pleases, so every way of dropping the surplus oldest rows is an outcome.
RECURSIVE keep_latest(_, _)
keep_latest(rows, limit) ==
    IF Len(rows) <= limit THEN {rows}
    ELSE UNION {keep_latest(remove_at(rows, i), limit) : i \in oldest_rows(rows)}

\* database.add_prediction; db_ok = FALSE is a statement raising, after which
\* the rollback undoes the DELETE as well
add_prediction(db_ok) ==
    LET prediction == [id |-> next_prediction_id, created_at |-> now]
    IN  /\ IF db_ok
           THEN \E kept \in keep_latest(predictions, PREDICTION_LIMIT) :
                   /\ predictions' = Append(kept, prediction)
                   /\ next_prediction_id' = next_prediction_id + 1
                   /\ last' = [op |-> "add_prediction", returned |-> Some(prediction.id),
                               before |-> Len(predictions)]
           ELSE /\ UNCHANGED <<predictions, next_prediction_id>>
                /\ last' = [op |-> "add_prediction", returned |-> None,
                            before |-> Len(predictions)]
        /\ UNCHANGED <<alertVars, trainingVars, fileVars, modelVars, userVars>>

-----------------------------------------------------------------------------
(***************************************************************************)
(* The upload directory: app/utils.py over UPLOAD_DIR.  upload_dir lists   *)
(* the files in the order they were created, so sorting by creation time   *)
(* leaves the order as it is.                                              *)
(***************************************************************************)
\* a file of UPLOAD_DIR: owner is the training task it was staged for, 0 for
\* a predict upload or a file no request owns
File(id, extension, owner) == [id |-> id, extension |-> extension, owner |-> owner]

MAX_AUDIO_FILES == 100

\* the service is started without the .debug_mode flag file
DEBUG_MODE == FALSE

\* os.path.exists
exists(dir, id) == \E i \in DOMAIN dir : dir[i].id = id

\* glob.glob(os.path.join(UPLOAD_DIR, "*.wav")), sorted by creation time
audio_files_of(dir) == SelectSeq(dir, LAMBDA f : f.extension = ".wav")

\* variant of files_to_delete: what is over the cap and no more
files_to_delete_over_cap(current_count) ==
    IF current_count > MAX_AUDIO_FILES THEN current_count - MAX_AUDIO_FILES ELSE 0

\* manage_audio_files, lines 58-63: how many of the oldest files go
files_to_delete(current_count) ==
    IF current_count >= MAX_AUDIO_FILES THEN current_count - MAX_AUDIO_FILES + 1 ELSE 0

\* manage_audio_files (lines 45-74): the directory after the rotation
manage_audio_files(dir) ==
    LET audio_files == audio_files_of(dir)
        current_count == Len(audio_files)
        removed == {audio_files[i].id : i \in 1..files_to_delete(current_count)}
    IN  SelectSeq(dir, LAMBDA f : f.id \notin removed)

\* cleanup_file (lines 27-43): the directory after the call
cleanup_file(dir, id) ==
    IF exists(dir, id) /\ ~DEBUG_MODE THEN manage_audio_files(dir) ELSE dir

-----------------------------------------------------------------------------
(***************************************************************************)
(* Orchestrator: app/model.py driven by main.py.  Two threads run Python   *)
(* code: the background thread started by lifespan (load_model_task) and   *)
(* the event loop, which runs one handler at a time up to its next await.  *)
(* load_model is a sequence of steps; a thread's steps interleave with the *)
(* other thread's.  model_loading_lock is taken by load_model_task only,   *)
(* so it excludes nobody and is not modelled.                              *)
(***************************************************************************)
Threads == {"background", "event_loop"}
LoadOver == {"returned", "raised"}

\* model = None
NoModel == [kind |-> "None", units |-> 0]

\* model.py line 22: the configured label list
labels ==
    <<"background", "emergency_vehicle", "horn", "alarm_clock", "baby", "cat",
      "dog", "fire_alarm", "thunder", "car_crash", "explosion", "gun">>

\* model.py line 138: the width of the rebuilt classifier's softmax layer
REBUILT_UNITS == 12

\* history: nothing had been loaded when the call was made
NothingLoaded ==
    [loaded |-> FALSE, model |-> NoModel, base_model |-> "None", model_ready |-> FALSE]

\* history: what a load_model call made after a load has returned finds
Globals ==
    IF loads_returned = 0 THEN NothingLoaded
    ELSE [loaded |-> TRUE, model |-> model, base_model |-> base_model,
          model_ready |-> model_ready]

Idle == [pc |-> "idle", caller |-> "none", found |-> NothingLoaded]

\* entry of load_model (lines 97-102): no test of what is already loaded
enter_load_model(t, caller) ==
    /\ loader' = [loader EXCEPT ![t] =
                    [pc |-> "base_model", caller |-> caller, found |-> Globals]]
    /\ loads_started' = loads_started + 1

\* main.load_model_task: the background thread calls load_model
load_model_task ==
    /\ loader["background"].pc = "idle"
    /\ enter_load_model("background", "load_model_task")
    /\ UNCHANGED <<alertVars, trainingVars, fileVars, last, predictionVars, userVars, model, base_model, model_ready,
                   pending, loads_returned>>

\* one step of load_model in thread t; ok = FALSE is the step's call raising,
\* units is the output width of the classifier stored at MODEL_PATH
\* A load_model whose weights-only load lets its exception out
after_load_weights_raising(ok) == IF ok THEN "warm_up" ELSE "raised"

\* lines 148-153: where load_model goes on after model.load_weights; the
\* except clause logs and falls through
after_load_weights(ok) == "warm_up"

load_model(t, ok, units) ==
    /\ loader[t].pc \notin {"idle"} \cup LoadOver
    /\ CASE loader[t].pc = "base_model" ->
              \* lines 106-111, and the except clause of lines 164-167
              IF ok
              THEN /\ base_model' = "MobileNetV2"
                   /\ loader' = [loader EXCEPT ![t].pc = "classifier"]
                   /\ UNCHANGED <<model, model_ready, loads_returned>>
              ELSE /\ model_ready' = FALSE
                   /\ loader' = [loader EXCEPT ![t].pc = "raised"]
                   /\ UNCHANGED <<model, base_model, loads_returned>>
         [] loader[t].pc = "classifier" ->
              \* lines 114-126: keras.models.load_model takes the classifier
              \* as the file has it, whatever its output width
              /\ model' = IF ok THEN [kind |-> "trained", units |-> units]
                          ELSE [kind |-> "empty_sequential", units |-> 0]
              /\ loader' = [loader EXCEPT ![t].pc = IF ok THEN "warm_up" ELSE "rebuild"]
              /\ UNCHANGED <<base_model, model_ready, loads_returned>>
         [] loader[t].pc = "rebuild" ->
              \* lines 127-145
              /\ model' = [kind |-> "untrained", units |-> REBUILT_UNITS]
              /\ loader' = [loader EXCEPT ![t].pc = "weights"]
              /\ UNCHANGED <<base_model, model_ready, loads_returned>>
         [] loader[t].pc = "weights" ->
              \* lines 148-153
              /\ model' = IF ok THEN [kind |-> "weights_loaded", units |-> REBUILT_UNITS]
                          ELSE model
              /\ loader' = [loader EXCEPT ![t].pc = after_load_weights(ok)]
              /\ UNCHANGED <<base_model, model_ready, loads_returned>>
         [] loader[t].pc = "warm_up" ->
              \* lines 156-163; warm_up_model swallows its own exceptions
              /\ model_ready' = TRUE
              /\ loader' = [loader EXCEPT ![t].pc = "returned"]
              /\ loads_returned' = loads_returned + 1
              /\ UNCHANGED <<model, base_model>>
    /\ UNCHANGED <<alertVars, trainingVars, fileVars, last, predictionVars, userVars, pending, loads_started>>

\* is_model_ready
is_model_ready == model_ready

\* GET /model-info, up to the return of its load_model call
model_info ==
    /\ loader["event_loop"] = Idle
    /\ enter_load_model("event_loop", "model_info")
    /\ UNCHANGED <<alertVars, trainingVars, fileVars, last, predictionVars, userVars, model, base_model, model_ready,
                   pending, loads_returned>>

\* GET /model-info after load_model: get_model_input_shape finds model set,
\* inspect_model may raise
model_info_respond(inspect_ok) ==
    /\ loader["event_loop"].caller = "model_info"
    /\ loader["event_loop"].pc \in LoadOver
    /\ loader' = [loader EXCEPT !["event_loop"] = Idle]
    /\ last' = [op |-> "model_info",
                status |-> IF loader["event_loop"].pc = "returned" /\ inspect_ok
                           THEN 200 ELSE 500]
    /\ UNCHANGED <<alertVars, trainingVars, fileVars, predictionVars, userVars, model, base_model, model_ready,
                   pending, loads_started, loads_returned>>

\* run_training_task of this task has started and not returned
Running(task_id) == trainer[task_id].pc \notin {"queued", "done"}

\* no coroutine is holding the event loop
EventLoopFree == \A task_id \in DOMAIN trainer : ~Running(task_id)

\* the response of the readiness gate (main.py lines 168-172, routers/audio.py
\* lines 35-39)
NotReadyResponse ==
    [status |-> 503,
     detail |-> "The model is still loading. Please try again in a moment."]

\* POST /predict/ up to the first await of save_upload_file: the readiness
\* gate, the extension check and the creation of the file under a fresh name.
\* status 0: no response yet, the request goes on.
predict_sound(extension_ok) ==
    LET response == IF ~is_model_ready THEN NotReadyResponse
                    ELSE IF ~extension_ok
                    THEN [status |-> 400, detail |-> "File must be one of the following formats"]
                    ELSE [status |-> 0, detail |-> ""]
    IN  /\ loader["event_loop"] = Idle
        /\ EventLoopFree
        /\ pending' = IF response.status = 0 THEN pending + 1 ELSE pending
        /\ IF response.status = 0
           THEN /\ upload_dir' = Append(upload_dir, File(next_file_id, ".wav", 0))
                /\ uploads' = uploads \cup {next_file_id}
                /\ next_file_id' = next_file_id + 1
           ELSE UNCHANGED fileVars
        /\ last' = [op |-> "predict_sound", status |-> response.status,
                    detail |-> response.detail,
                    ready |-> is_model_ready,
                    background |-> loader["background"].pc,
                    loading |-> {t \in Threads : loader[t].pc \notin {"idle"} \cup LoadOver},
                    admitted |-> pending' - pending]
        /\ UNCHANGED <<alertVars, trainingVars, predictionVars, userVars, model, base_model, model_ready,
                       loader, loads_started, loads_returned>>

\* model.predict(features)[0]: a softmax vector as wide as the classifier's
\* last layer, in hundredths, here with all the mass on the
\* first or on the last position; an empty Sequential has no output
ModelOutputs ==
    IF model.units = 0 THEN {<<>>}
    ELSE {[i \in 1..model.units |-> IF i = hot THEN 100 ELSE 0] : hot \in {1, model.units}}

\* get_predictions, lines 236-238: result[label] = float(scores[i]) for
\* every label in turn; scores[i] past the end raises IndexError (None)
RECURSIVE label_predictions(_, _, _)
label_predictions(scores, i, result) ==
    IF i > Len(labels) THEN Some(result)
    ELSE IF i > Len(scores) THEN None
    ELSE label_predictions(scores, i + 1,
            [l \in DOMAIN result \cup {labels[i]} |->
                IF l = labels[i] THEN scores[i] ELSE result[l]])

\* variant of run_pipeline: a failing pipeline returns an empty mapping
run_pipeline_swallowing(pipeline_ok, scores) ==
    IF ~pipeline_ok \/ scores = <<>> THEN Some(<<>>)
    ELSE label_predictions(scores, 1, <<>>)

\* get_predictions, lines 215-249: the pipeline, run with model and base_model
\* set.  pipeline_ok = FALSE is a stage before the label loop raising.  The
\* value is Some(result), or None when the except clause of lines 247-249
\* raises "Prediction error".
run_pipeline(pipeline_ok, scores) ==
    IF ~pipeline_ok \/ scores = <<>> THEN None
    ELSE label_predictions(scores, 1, <<>>)

\* what a caller of get_predictions sees of the pipeline
Outcome(returned) == IF returned = None THEN "Prediction error" ELSE "predictions"

\* POST /predict/ after the upload is saved: get_predictions, cleanup_file
\* (on both ways out) and the response.  The gate let the request through, so
\* model and base_model are set and line 213 does not load.
predict_sound_resume(file_path, pipeline_ok, scores) ==
    LET returned == run_pipeline(pipeline_ok, scores)
    IN  /\ loader["event_loop"] = Idle
        /\ EventLoopFree
        /\ pending > 0
        /\ file_path \in uploads
        /\ model # NoModel /\ base_model # "None"
        /\ pending' = pending - 1
        /\ uploads' = uploads \ {file_path}
        /\ upload_dir' = cleanup_file(upload_dir, file_path)
        /\ last' = [op |-> "predict_sound_resume",
                    status |-> IF returned # None THEN 200 ELSE 500,
                    model |-> model, scores |-> scores,
                    returned |-> returned,
                    file_path |-> file_path, dir_before |-> upload_dir]
        /\ UNCHANGED <<alertVars, trainingVars, predictionVars, userVars, model, base_model, model_ready,
                       loader, loads_started, loads_returned, next_file_id>>

\* variant of needs_load: "and" in place of "or"
needs_load_both_unset == model = NoModel /\ base_model = "None"

\* get_predictions, line 212: the test that decides whether to load
needs_load == model = NoModel \/ base_model = "None"

\* get_predictions called by a user of app.model, up to the return of the
\* load_model call of line 213 when it makes one.  The record keeps what the
\* call found: whether any load_model call had returned, and whether model
\* or base_model was unset.
get_predictions(pipeline_ok, scores) ==
    LET call == [op |-> "get_predictions",
                 loaded_before |-> loads_returned > 0,
                 unset |-> (model = NoModel \/ base_model = "None"),
                 loads_before |-> loads_started]
        returned == run_pipeline(pipeline_ok, scores)
    IN  /\ loader["event_loop"] = Idle
        /\ IF needs_load
           THEN /\ enter_load_model("event_loop", "get_predictions")
                /\ last' = call @@ [loaded_first |-> TRUE, outcome |-> "loading",
                                    model |-> NoModel, scores |-> <<>>,
                                    returned |-> None]
           ELSE /\ last' = call @@ [loaded_first |-> FALSE,
                                    outcome |-> Outcome(returned),
                                    model |-> model, scores |-> scores,
                                    returned |-> returned]
                /\ UNCHANGED <<loader, loads_started>>
        /\ UNCHANGED <<alertVars, trainingVars, fileVars, predictionVars, userVars, model, base_model, model_ready,
                       pending, loads_returned>>

\* get_predictions after its own load_model call: the load's exception
\* propagates, otherwise the pipeline runs
get_predictions_resume(pipeline_ok, scores) ==
    LET loaded == loader["event_loop"].pc = "returned"
        returned == IF loaded THEN run_pipeline(pipeline_ok, scores) ELSE None
    IN  /\ loader["event_loop"].caller = "get_predictions"
        /\ loader["event_loop"].pc \in LoadOver
        /\ loader' = [loader EXCEPT !["event_loop"] = Idle]
        /\ last' = [last EXCEPT !.outcome = IF loaded THEN Outcome(returned)
                                            ELSE "Failed to load model",
                                !.model = IF loaded THEN model ELSE NoModel,
                                !.scores = IF loaded THEN scores ELSE <<>>,
                                !.returned = returned]
        /\ UNCHANGED <<alertVars, trainingVars, fileVars, predictionVars, userVars, model, base_model, model_ready,
                       pending, loads_started, loads_returned>>


-----------------------------------------------------------------------------
(***************************************************************************)
(* Training: routers/training.py and app/training.py.  run_training_task   *)
(* is a coroutine without an await, so once it starts it holds the event   *)
(* loop until it returns: its stages are steps of the model that no other  *)
(* handler interleaves with.  A task id is the task's position in          *)
(* training_tasks (the code draws a fresh uuid4).                          *)
(***************************************************************************)
TerminalStatuses == {"completed", "failed"}

\* config.ALLOWED_EXTENSIONS
ALLOWED_EXTENSIONS == {".wav"}

\* str.lower on the extensions the requests carry
lower(extension) == IF extension = ".WAV" THEN ".wav" ELSE extension

\* filename.lower().endswith(ALLOWED_EXTENSIONS); a file is named by its
\* extension
allowed_file(filename) == lower(filename) \in ALLOWED_EXTENSIONS

\* variant of request_violation: the extension check left out
request_violation_any_extension(class_names_list, labels_list, files, parse_ok) ==
    IF ~parse_ok THEN "must be a valid JSON list"
    ELSE IF Len(files) # Len(labels_list)
    THEN "Number of files must match number of labels_list"
    ELSE IF \E i \in DOMAIN labels_list : ~(0 <= labels_list[i] /\ labels_list[i] < Len(class_names_list))
    THEN "Labels must be integers between 0 and the number of classes - 1"
    ELSE ""

\* train_model, lines 50-86: the detail of the first check the request
\* fails, "" when it passes them all.  parse_ok = FALSE is class_names or
\* labels not being JSON of the required type.
request_violation(class_names_list, labels_list, files, parse_ok) ==
    IF ~parse_ok THEN "must be a valid JSON list"
    ELSE IF Len(files) # Len(labels_list)
    THEN "Number of files must match number of labels_list"
    ELSE IF \E i \in DOMAIN labels_list : ~(0 <= labels_list[i] /\ labels_list[i] < Len(class_names_list))
    THEN "Labels must be integers between 0 and the number of classes - 1"
    ELSE IF \E i \in DOMAIN files : ~allowed_file(files[i])
    THEN "File is not one of the allowed formats"
    ELSE ""

\* lines 88-97: the files as staged, named afresh with their own extensions
staged_files(files, owner) ==
    [i \in DOMAIN files |-> File(next_file_id + i - 1, files[i], owner)]

\* POST /training/ (lines 26-147).  save_ok = FALSE is the last
\* save_upload_file raising after it has created its file: the except clause
\* of lines 141-147 removes the files saved before it, which leaves that one.
\* The awaits of the saves are not modelled as steps.
train_model(class_names_list, labels_list, files, parse_ok, save_ok) ==
    LET task_id == Len(training_tasks) + 1
        detail == request_violation(class_names_list, labels_list, files, parse_ok)
        request == [op |-> "train_model", class_names_list |-> class_names_list,
                    labels_list |-> labels_list, files |-> files, parsed |-> parse_ok,
                    tasks_before |-> Len(training_tasks),
                    files_before |-> Len(upload_dir),
                    next_file_before |-> next_file_id]
    IN  /\ EventLoopFree
        /\ IF detail # ""
           THEN /\ last' = request @@ [status |-> 400, detail |-> detail, task_id |-> 0]
                /\ UNCHANGED <<trainingVars, fileVars>>
           ELSE IF ~save_ok
           THEN /\ last' = request @@ [status |-> 500, detail |-> "Error starting training",
                                       task_id |-> 0]
                /\ upload_dir' = Append(upload_dir, File(next_file_id + Len(files) - 1,
                                                         files[Len(files)], 0))
                /\ next_file_id' = next_file_id + Len(files)
                /\ UNCHANGED <<trainingVars, uploads>>
           ELSE /\ upload_dir' = upload_dir \o staged_files(files, task_id)
                /\ next_file_id' = next_file_id + Len(files)
                /\ training_tasks' = Append(training_tasks,
                        [status |-> "initializing",
                         message |-> "Preparing model training",
                         details |-> [num_files |-> Len(files)]])
                /\ trainer' = Append(trainer,
                        [pc |-> "queued", model |-> "None", stages |-> <<>>,
                         x_train |-> 0, x_test |-> 0,
                         audio_files |-> [i \in DOMAIN files |-> next_file_id + i - 1],
                         class_indices |-> labels_list])
                /\ last' = request @@ [status |-> 200, detail |-> "", task_id |-> task_id]
                /\ UNCHANGED <<uploads, executor>>
        /\ UNCHANGED <<alertVars, predictionVars, userVars, modelVars>>

\* GET /training/{task_id} (lines 149-166)
get_training_status(task_id) ==
    /\ EventLoopFree
    /\ last' = IF task_id \notin DOMAIN training_tasks
               THEN [op |-> "get_training_status", status |-> 404, task_id |-> task_id]
               ELSE [op |-> "get_training_status", status |-> 200, task_id |-> task_id,
                     task |-> training_tasks[task_id]]
    /\ UNCHANGED <<alertVars, predictionVars, userVars, modelVars, trainingVars, fileVars>>

\* sklearn train_test_split(test_size=0.3): the test share in percent
TEST_SIZE_PERCENT == 30

\* train_test_split: n_test = ceil(test_size * n), n_train = n - n_test
n_test(n) == (TEST_SIZE_PERCENT * n + 99) \div 100
n_train(n) == n - n_test(n)

\* variant of stage_failed: the message is set, the status is left alone
stage_failed_status_kept(task_id, message) ==
    [training_tasks EXCEPT ![task_id].message = message]

\* the two assignments made when a stage reports failure (lines 182-183,
\* 189-190, 198-199, 214-215)
stage_failed(task_id, message) ==
    [training_tasks EXCEPT ![task_id].status = "failed", ![task_id].message = message]

\* history: a call of a stage of the trainer and whether it succeeded
ran(task_id, stage, ok) ==
    Append(trainer[task_id].stages, [stage |-> stage, ok |-> ok])

\* SoundClassificationTrainer.generate_training_report: the report, or the
\* dictionary of the except clause (line 434)
generate_training_report(task_id, ok) ==
    IF ok THEN [classes |-> "classes",
                num_training_samples |-> trainer[task_id].x_train,
                num_test_samples |-> trainer[task_id].x_test,
                test_accuracy |-> "test_acc"]
    ELSE [error |-> "str(e)"]

\* one stage of run_training_task (lines 168-215) for this task.  ok = FALSE
\* is the stage's own code raising; images is the number of spectrograms
\* process_audio_files hands back; broken is what a failed build_model leaves
\* in trainer.model ("None", or "partial": a Sequential missing layers or not
\* compiled).  Every stage of the trainer catches its exceptions and reports
\* them by its return value.
run_training_task(task_id, ok, images, broken) ==
    LET t == trainer[task_id]
        to(pc) == [trainer EXCEPT ![task_id].pc = pc]
        abort(message) ==
            /\ training_tasks' = stage_failed(task_id, message)
    IN  /\ t.pc # "done"
        /\ t.pc = "queued" => EventLoopFree
        /\ CASE t.pc = "queued" ->
                \* lines 171-172
                /\ training_tasks' = [training_tasks EXCEPT ![task_id].status = "processing"]
                /\ trainer' = to("construct")
             [] t.pc = "construct" ->
                \* lines 175-177: the trainer's constructor, whose os.makedirs
                \* may raise into the except clause of lines 212-215
                /\ trainer' = to(IF ok THEN "prepare" ELSE "done")
                /\ IF ok THEN UNCHANGED training_tasks ELSE abort("Training failed")
             [] t.pc = "prepare" ->
                \* lines 180-184 and prepare_training_data (203-239); no
                \* image comes from a file that is not in UPLOAD_DIR any more
                LET present == {i \in DOMAIN t.audio_files :
                                   exists(upload_dir, t.audio_files[i])}
                    rendered == IF present = {} THEN 0 ELSE images
                    success == ok /\ rendered > 0 /\ n_train(rendered) > 0
                IN  /\ trainer' = [trainer EXCEPT
                            ![task_id].pc = IF success THEN "extract" ELSE "done",
                            ![task_id].stages = ran(task_id, "prepare_training_data", success),
                            ![task_id].x_train = IF success THEN n_train(rendered) ELSE 0,
                            ![task_id].x_test = IF success THEN n_test(rendered) ELSE 0]
                    /\ IF success THEN UNCHANGED training_tasks
                       ELSE abort("Failed to prepare training data")
             [] t.pc = "extract" ->
                \* lines 187-191 and extract_features (241-291)
                /\ trainer' = [trainer EXCEPT
                        ![task_id].pc = IF ok THEN "build" ELSE "done",
                        ![task_id].stages = ran(task_id, "extract_features", ok)]
                /\ IF ok THEN UNCHANGED training_tasks
                   ELSE abort("Failed to extract features from spectrograms")
             [] t.pc = "build" ->
                \* line 194: build_model (293-329); its return value is dropped
                /\ trainer' = [trainer EXCEPT
                        ![task_id].pc = "train",
                        ![task_id].model = IF ok THEN "built" ELSE broken,
                        ![task_id].stages = ran(task_id, "build_model", ok)]
                /\ UNCHANGED training_tasks
             [] t.pc = "train" ->
                \* line 195, train_model lines 343-344: build again when
                \* trainer.model is None
                /\ trainer' = IF t.model = "None"
                              THEN [trainer EXCEPT
                                      ![task_id].pc = "fit",
                                      ![task_id].model = IF ok THEN "built" ELSE broken,
                                      ![task_id].stages = ran(task_id, "build_model", ok)]
                              ELSE to("fit")
                /\ UNCHANGED training_tasks
             [] t.pc = "fit" ->
                \* train_model lines 346-383 and lines 197-200: fit, save and
                \* evaluate; they raise on a model that is None or not compiled
                LET history == ok /\ t.model = "built"
                IN  /\ trainer' = [trainer EXCEPT
                            ![task_id].pc = IF history THEN "report" ELSE "done",
                            ![task_id].stages = ran(task_id, "train_model", history)]
                    /\ IF history THEN UNCHANGED training_tasks
                       ELSE abort("Model training failed")
             [] t.pc = "report" ->
                \* lines 203-208
                /\ trainer' = [trainer EXCEPT
                        ![task_id].pc = "done",
                        ![task_id].stages = ran(task_id, "generate_training_report", ok)]
                /\ training_tasks' = [training_tasks EXCEPT
                        ![task_id].status = "completed",
                        ![task_id].message = "Model training completed successfully",
                        ![task_id].details = generate_training_report(task_id, ok)]
        /\ UNCHANGED <<alertVars, last, predictionVars, userVars, modelVars, fileVars, executor>>

\* SoundClassificationTrainer.split_audio_file (lines 60-83).  A clip is the
\* sequence y of its samples and its rate sr in samples per second;
\* max_duration is in tenths of a second.

\* line 71: int(max_duration * sr)
samples_per_chunk(max_duration, sr) == (max_duration * sr) \div 10

\* variant of keep_chunk: a short last chunk is kept
keep_chunk_any(chunk, size) == TRUE

\* line 77: only a chunk of the full length is kept
keep_chunk(chunk, size) == Len(chunk) = size

\* lines 74-78: for i in range(0, len(y), samples_per_chunk), with
\* y[i:i + samples_per_chunk] cut off at the end of y
RECURSIVE split_loop(_, _, _, _)
split_loop(y, i, size, chunks) ==
    IF i >= Len(y) THEN chunks
    ELSE LET chunk == SubSeq(y, i + 1, Min2(i + size, Len(y)))
         IN  split_loop(y, i + size, size,
                        IF keep_chunk(chunk, size) THEN Append(chunks, chunk) ELSE chunks)

\* the list split_audio_file returns; load_ok = FALSE is librosa.load raising.
\* range() with a step of 0 raises ValueError, and the except clause of
\* lines 81-83 returns [] for every exception.
split_chunks(y, sr, max_duration, load_ok) ==
    IF ~load_ok THEN <<>>
    ELSE IF Len(y) * 10 <= max_duration * sr THEN <<y>>
    ELSE IF samples_per_chunk(max_duration, sr) = 0 THEN <<>>
    ELSE split_loop(y, 0, samples_per_chunk(max_duration, sr), <<>>)

split_audio_file(y, sr, max_duration, load_ok) ==
    /\ last' = [op |-> "split_audio_file", y |-> y, sr |-> sr,
                max_duration |-> max_duration, loaded |-> load_ok,
                chunks |-> split_chunks(y, sr, max_duration, load_ok)]
    /\ UNCHANGED <<alertVars, predictionVars, userVars, modelVars, trainingVars, fileVars>>

-----------------------------------------------------------------------------
(***************************************************************************)
(* Spectrogram images.  An image is the PIL image read back from the       *)
(* rendered PNG: its mode and its size.  An array is known by its shape.   *)
(***************************************************************************)
\* PIL: the number of bands of a mode
bands(mode) ==
    CASE mode = "L" -> 1
      [] mode = "P" -> 1
      [] mode = "LA" -> 2
      [] mode = "RGB" -> 3
      [] mode = "RGBA" -> 4

\* Image.convert
convert(img, mode) == [img EXCEPT !.mode = mode]

\* Image.resize
resize(img, width, height) == [img EXCEPT !.width = width, !.height = height]

\* np.array(img).shape: a one-band image is a two-dimensional array
array_shape(img) ==
    IF bands(img.mode) = 1
    THEN <<img.height, img.width>>
    ELSE <<img.height, img.width, bands(img.mode)>>

\* img_array[..., :3]
first_three(shape) ==
    [shape EXCEPT ![Len(shape)] = IF @ > 3 THEN 3 ELSE @]

\* np.expand_dims(img_array, axis=0)
expand_dims(shape) == <<1>> \o shape

IMAGE_SIZE == 224

\* model.create_spectrogram_from_audio, from the image read back from the
\* rendered PNG to the array handed to the network
spectrogram_from_image(rendered) ==
    LET rgb == IF rendered.mode = "RGBA" THEN convert(rendered, "RGB") ELSE rendered
        img == resize(rgb, IMAGE_SIZE, IMAGE_SIZE)
        img_array == array_shape(img)
        no_alpha == IF img_array[Len(img_array)] = 4
                    THEN first_three(img_array) ELSE img_array
    IN  expand_dims(no_alpha)

create_spectrogram_from_audio(rendered) ==
    /\ last' = [op |-> "create_spectrogram_from_audio", rendered |-> rendered,
                img_array |-> spectrogram_from_image(rendered)]
    /\ UNCHANGED <<alertVars, predictionVars, userVars, modelVars, trainingVars, fileVars>>

\* audio_processing.create_spectrogram with return_pil=False: any mode but
\* RGB is converted, the image keeps the size it was rendered at
create_spectrogram(rendered) ==
    LET img == IF rendered.mode # "RGB" THEN convert(rendered, "RGB") ELSE rendered
    IN  /\ last' = [op |-> "create_spectrogram", rendered |-> rendered,
                    img_array |-> array_shape(img)]
        /\ UNCHANGED <<alertVars, predictionVars, userVars, modelVars, trainingVars, fileVars>>

-----------------------------------------------------------------------------
(***************************************************************************)
(* The training data stage: SoundClassificationTrainer.process_audio_files *)
(* over a ThreadPoolExecutor.  A submitted file is its label and what its  *)
(* processing meets: whether split_audio_file gets its chunks (loading and *)
(* chunking) and, per chunk, whether create_spectrogram renders it.  An    *)
(* image is named by the file and the chunk it was rendered from.          *)
(***************************************************************************)
NoBatch == [files |-> <<>>, collected |-> {}, all_images |-> <<>>, all_labels |-> <<>>]

\* variant of rendered_chunks: one chunk that does not render loses the file
rendered_chunks_all_or_nothing(file) ==
    IF \A c \in DOMAIN file.renders : file.renders[c]
    THEN [c \in DOMAIN file.renders |-> c]
    ELSE <<>>

\* lines 146-149: the chunks whose create_spectrogram did not return None
rendered_chunks(file) ==
    SelectSeq([c \in DOMAIN file.renders |-> c], LAMBDA c : file.renders[c])

\* process_audio_file (lines 131-154): the (image, label) pairs of the file
\* submitted at position i; split_audio_file returns [] when it fails
process_audio_file(i, file) ==
    IF ~file.split_ok
    THEN <<>>
    ELSE [k \in DOMAIN rendered_chunks(file) |->
             [img |-> [file |-> i, chunk |-> rendered_chunks(file)[k]],
              lbl |-> file.label]]

\* variant of label_of: the label at the position of the collection
label_by_position(files, pair, position) == files[position].label

\* lines 192-194: the label appended with an image is the one of its pair
label_of(files, pair, position) == pair.lbl

\* process_audio_files up to the as_completed loop (lines 167-186)
process_audio_files(files) ==
    /\ executor' = [files |-> files, collected |-> {},
                    all_images |-> <<>>, all_labels |-> <<>>]
    /\ last' = [op |-> "process_audio_files", n |-> Len(files)]
    /\ UNCHANGED <<alertVars, predictionVars, userVars, modelVars, training_tasks, trainer,
                   fileVars>>

\* one turn of the as_completed loop (lines 188-196): the future of file i
\* is the next to complete and its pairs are appended
as_completed(i) ==
    LET results == process_audio_file(i, executor.files[i])
        position == Cardinality(executor.collected) + 1
    IN  /\ i \in DOMAIN executor.files \ executor.collected
        /\ executor' = [executor EXCEPT
               !.collected = @ \cup {i},
               !.all_images = @ \o [k \in DOMAIN results |-> results[k].img],
               !.all_labels = @ \o [k \in DOMAIN results |->
                                       label_of(executor.files, results[k], position)]]
        /\ last' = [op |-> "as_completed", file |-> i]
        /\ UNCHANGED <<alertVars, predictionVars, userVars, modelVars, training_tasks, trainer,
                       fileVars>>

-----------------------------------------------------------------------------
(***************************************************************************)
(* Accounts: routers/auth.py over the users table.  database.init_db puts  *)
(* the default admin into the empty table; a user id is a position in      *)
(* users.  A caller is the account its token names.                        *)
(***************************************************************************)
\* config.UserPrivilege
UserPrivilege == [USER |-> "user", ADMIN |-> "admin", SUPER_ADMIN |-> "super_admin"]

\* POST /auth/register: create_user with the default privilege
register_user(db_ok) ==
    /\ users' = IF db_ok THEN Append(users, UserPrivilege.USER) ELSE users
    /\ last' = [op |-> "register_user", status |-> IF db_ok THEN 200 ELSE 500]
    /\ UNCHANGED <<alertVars, predictionVars, modelVars, trainingVars, fileVars>>

\* auth.check_admin_privilege (lines 91-100)
check_admin_privilege(current_user) ==
    users[current_user] \in {UserPrivilege.ADMIN, UserPrivilege.SUPER_ADMIN}

\* lines 158-164: the test behind "Only super admins can create or modify
\* admin accounts"
may_set(current_user, privilege) ==
    ~(/\ privilege \in {UserPrivilege.ADMIN, UserPrivilege.SUPER_ADMIN}
      /\ users[current_user] # UserPrivilege.SUPER_ADMIN)

\* PUT /auth/users/{user_id}/privilege
update_user_privilege(current_user, user_id, privilege) ==
    LET status == IF ~check_admin_privilege(current_user) THEN 403
                  ELSE IF privilege \notin {UserPrivilege.USER, UserPrivilege.ADMIN,
                                            UserPrivilege.SUPER_ADMIN} THEN 400
                  ELSE IF ~may_set(current_user, privilege) THEN 403
                  ELSE IF user_id \notin DOMAIN users THEN 404
                  ELSE 200
    IN  /\ users' = IF status = 200 THEN [users EXCEPT ![user_id] = privilege] ELSE users
        /\ last' = [op |-> "update_user_privilege", current_user |-> current_user,
                    user_id |-> user_id, privilege |-> privilege,
                    users_before |-> users, status |-> status]
        /\ UNCHANGED <<alertVars, predictionVars, modelVars, trainingVars, fileVars>>

-----------------------------------------------------------------------------
(***************************************************************************)
(* Specifications.  Init is the service right after startup: empty tables, *)
(* no model loaded, the background thread about to call load_model.  Each  *)
(* specification runs the handlers of one part of the service over the     *)
(* request values listed with it.                                          *)
(***************************************************************************)
Init ==
    /\ notifiable_classes = <<>>
    /\ alerts = <<>>
    /\ audit = <<>>
    /\ now = 0
    /\ last = [op |-> "none"]
    /\ predictions = <<>>
    /\ next_prediction_id = 1
    /\ model = NoModel
    /\ base_model = "None"
    /\ model_ready = FALSE
    /\ loader = [t \in Threads |-> Idle]
    /\ pending = 0
    /\ loads_started = 0
    /\ loads_returned = 0
    /\ training_tasks = <<>>
    /\ trainer = <<>>
    /\ executor = NoBatch
    /\ upload_dir = <<>>
    /\ next_file_id = 1
    /\ uploads = {}
    /\ users = <<UserPrivilege.ADMIN>>

MaxAlerts == 2
MaxNearbyAlerts == 3
MaxClock == 1
MaxPredictions == 102
MaxPending == 1
MaxLoads == 2

ClassNames == {"siren", "horn"}
ClassIds == 1..2
MinConfidences == {50, 70}
Confidences == {49, 50, 70}

\* --- Spec: notifiable classes and the alert gate ---
CreateClass ==
    \E class_name \in ClassNames, min_confidence \in MinConfidences, db_ok \in BOOLEAN :
        create_new_notifiable_class(class_name, min_confidence, db_ok)

UpdateClass ==
    \E class_id \in ClassIds, min_confidence \in Optional(MinConfidences),
       is_active \in Optional(BOOLEAN), db_ok \in BOOLEAN :
        update_notifiable_class_endpoint(class_id, min_confidence, is_active, db_ok)

CreateAlert ==
    /\ Len(alerts) < MaxAlerts
    /\ \E class_id \in ClassIds, confidence \in Confidences, db_ok \in BOOLEAN :
        create_new_alert(class_id, North5km.latitude, North5km.longitude,
                         confidence, db_ok)

Next == CreateClass \/ UpdateClass \/ CreateAlert

Spec == Init /\ [][Next]_vars

\* --- SpecNearby: the geometry of the radius search ---
Radii == {10000, 12000}

NearbySetup ==
    create_new_notifiable_class("siren", 70, TRUE)

NearbyCreateAlert ==
    /\ Len(alerts) < MaxNearbyAlerts
    /\ \E p \in AlertPoints :
        create_new_alert(1, p.latitude, p.longitude, 70, TRUE)

NearbyQuery ==
    \E radius_km \in Radii, db_ok \in BOOLEAN :
        get_nearby_alerts(QueryPoint.latitude, QueryPoint.longitude, radius_km,
                          None, None, db_ok)

NextNearby == NearbySetup \/ NearbyCreateAlert \/ NearbyQuery

SpecNearby == Init /\ [][NextNearby]_vars

\* --- SpecFilter: the class and time filters of the radius search ---
ClassIdLists == {<<>>, <<1>>, <<2>>, <<1, 2>>}
HoursAgo == 0..1

FilterSetup ==
    \E class_name \in ClassNames : create_new_notifiable_class(class_name, 50, TRUE)

FilterCreateAlert ==
    /\ Len(alerts) < MaxAlerts
    /\ \E class_id \in ClassIds :
        create_new_alert(class_id, North5km.latitude, North5km.longitude, 70, TRUE)

FilterTick == now < MaxClock /\ Tick

FilterQuery ==
    \E class_ids \in Optional(ClassIdLists), hours_ago \in Optional(HoursAgo) :
        get_nearby_alerts(QueryPoint.latitude, QueryPoint.longitude, 10000,
                          class_ids, hours_ago, TRUE)

NextFilter == FilterSetup \/ FilterCreateAlert \/ FilterTick \/ FilterQuery

SpecFilter == Init /\ [][NextFilter]_vars

\* --- SpecRetention: add_prediction over a ticking clock ---
AddPrediction ==
    /\ next_prediction_id <= MaxPredictions
    /\ \E db_ok \in BOOLEAN : add_prediction(db_ok)

RetentionTick == now < MaxClock /\ Tick

NextRetention == AddPrediction \/ RetentionTick

SpecRetention == Init /\ [][NextRetention]_vars

\* --- SpecModel: model loading and inference requests ---
BackgroundLoad == load_model_task

ClassifierUnits == {11, 12, 13}

LoadStep ==
    \E t \in Threads, ok \in BOOLEAN, units \in ClassifierUnits : load_model(t, ok, units)

ModelInfo == loads_started < MaxLoads /\ model_info

ModelInfoRespond == \E inspect_ok \in BOOLEAN : model_info_respond(inspect_ok)

MaxUploads == 2

PredictSound ==
    /\ pending < MaxPending
    /\ next_file_id <= MaxUploads
    /\ \E extension_ok \in BOOLEAN : predict_sound(extension_ok)

PredictSoundResume ==
    \E file_path \in uploads, pipeline_ok \in BOOLEAN, scores \in ModelOutputs :
        predict_sound_resume(file_path, pipeline_ok, scores)

GetPredictions ==
    /\ needs_load => loads_started < MaxLoads
    /\ \E pipeline_ok \in BOOLEAN, scores \in ModelOutputs :
        get_predictions(pipeline_ok, scores)

GetPredictionsResume ==
    \E pipeline_ok \in BOOLEAN, scores \in ModelOutputs :
        get_predictions_resume(pipeline_ok, scores)

NextModel ==
    \/ BackgroundLoad \/ LoadStep \/ ModelInfo \/ ModelInfoRespond
    \/ PredictSound \/ PredictSoundResume \/ GetPredictions \/ GetPredictionsResume

SpecModel == Init /\ [][NextModel]_vars

\* --- SpecTraining: training requests and their background tasks ---
MaxTasks == 2
MaxImages == 2

TrainModel ==
    /\ Len(training_tasks) < MaxTasks
    /\ \E parse_ok \in BOOLEAN :
        train_model(<<"siren", "horn">>, <<0, 1>>, <<".wav", ".wav">>, parse_ok, TRUE)

GetTrainingStatus == \E task_id \in 1..MaxTasks : get_training_status(task_id)

RunTrainingTask ==
    \E task_id \in DOMAIN trainer, ok \in BOOLEAN, images \in 0..MaxImages,
       broken \in {"None", "partial"} :
        run_training_task(task_id, ok, images, broken)

NextTraining == TrainModel \/ GetTrainingStatus \/ RunTrainingTask

SpecTraining == Init /\ [][NextTraining]_vars

\* Starlette runs a queued background task once its response is sent, and
\* every stage of the task returns
SpecTrainingLive == SpecTraining /\ WF_vars(RunTrainingTask)

\* --- SpecSplit: split_audio_file over short clips ---
MaxSamples == 10

\* a clip of n samples, each sample named by its position
Clip(n) == [i \in 1..n |-> i]
SampleRates == {2, 3}
MaxDurations == {1, 10, 15}

SplitAudioFile ==
    \E n \in 0..MaxSamples, sr \in SampleRates, max_duration \in MaxDurations,
       load_ok \in BOOLEAN :
        split_audio_file(Clip(n), sr, max_duration, load_ok)

NextSplit == SplitAudioFile

SpecSplit == Init /\ [][NextSplit]_vars

\* --- SpecStaging: the checks and the staging of training requests ---
MaxStaged == 2

ClassNameLists == {<<"siren">>, <<"siren", "horn">>}
LabelLists == UNION {[1..n -> {-1, 0, 1}] : n \in 0..2}
FileLists == UNION {[1..n -> {".wav", ".WAV", ".mp3"}] : n \in 1..2}

StageRequest ==
    /\ next_file_id <= MaxStaged
    /\ \E class_names_list \in ClassNameLists, labels_list \in LabelLists, files \in FileLists,
          parse_ok \in BOOLEAN, save_ok \in BOOLEAN :
        train_model(class_names_list, labels_list, files, parse_ok, save_ok)

NextStaging == StageRequest

SpecStaging == Init /\ [][NextStaging]_vars

-----------------------------------------------------------------------------
(***************************************************************************)
(* Properties.                                                             *)
(***************************************************************************)
ClassRow(class_id) == get_notifiable_class_by_id(class_id)

\* C1: every stored alert was accepted by a request that read an existing,
\* active class whose min_confidence the request's confidence met, and a
\* create_new_alert request failing one of the checks is rejected (404 or
\* 400) and stores nothing.
AlertsPassedTheGate ==
    /\ Len(audit) = Len(alerts)
    /\ \A i \in DOMAIN alerts :
        /\ audit[i] # NoRow
        /\ audit[i].id = alerts[i].class_id
        /\ audit[i].is_active
        /\ alerts[i].confidence >= audit[i].min_confidence
    /\ (/\ last.op = "create_new_alert"
        /\ \/ last.notifiable_class = NoRow
           \/ ~last.notifiable_class.is_active
           \/ last.confidence < last.notifiable_class.min_confidence)
       => (last.status \in {400, 404} /\ last.stored = 0)

\* C1 witness: a stored alert whose class has since been deactivated
StoredAlertOfDeactivatedClass ==
    \E i \in DOMAIN alerts : ~ClassRow(alerts[i].class_id).is_active

\* C2: for a request naming an existing class, the request passes the gate
\* exactly when the class is active and confidence >= min_confidence.
EligibilityDecision ==
    (last.op = "create_new_alert" /\ last.notifiable_class # NoRow) =>
        ((last.status \notin {400, 404}) <=>
            (/\ last.notifiable_class.is_active
             /\ last.confidence >= last.notifiable_class.min_confidence))

\* C2 witness: a request with confidence equal to min_confidence was stored
AcceptedAtThreshold ==
    /\ last.op = "create_new_alert"
    /\ last.status = 201
    /\ last.confidence = last.notifiable_class.min_confidence

\* the exact distance of a stored alert from the point of the last query
ExactDistance(alert) ==
    calculate_distance(last.latitude, last.longitude, alert.latitude, alert.longitude)

ReturnedIds == {last.results[j].id : j \in DOMAIN last.results}

AlertById(id) == alerts[id]

\* C3: a radius search that did not raise returns every stored alert whose
\* exact distance from the query point is <= radius_km (no class or time
\* filter being set).
NearbyReturnsAllWithinRadius ==
    (last.op = "get_nearby_alerts" /\ last.db_ok
        /\ last.class_ids = None /\ last.hours_ago = None) =>
        \A i \in DOMAIN alerts :
            ExactDistance(alerts[i]) <= last.radius_km => alerts[i].id \in ReturnedIds

\* C4: a radius search never returns an alert whose exact distance from the
\* query point exceeds radius_km.
NearbyNeverBeyondRadius ==
    last.op = "get_nearby_alerts" =>
        \A id \in ReturnedIds : ExactDistance(AlertById(id)) <= last.radius_km

\* C4 witness: with radius 10 km, alerts 5 km north and 11 km north-east (the
\* latter inside the bounding box) are stored and only the former is returned
BoxCandidateDiscarded ==
    /\ last.op = "get_nearby_alerts"
    /\ last.radius_km = 10000
    /\ \E i, j \in DOMAIN alerts :
        /\ alerts[i].latitude = North5km.latitude
        /\ alerts[j].latitude = NorthEast11km.latitude
        /\ bounding_box(alerts[j], last.latitude, last.longitude, last.radius_km)
        /\ ReturnedIds = {alerts[i].id}

\* C5: the returned list is in non-decreasing order of distance_km, and every
\* distance_km is the exact distance from the query point to that alert.
NearbySortedByExactDistance ==
    last.op = "get_nearby_alerts" =>
        /\ \A j \in DOMAIN last.results :
            last.results[j].distance_km = ExactDistance(AlertById(last.results[j].id))
        /\ \A j \in 1..(Len(last.results) - 1) :
            last.results[j].distance_km <= last.results[j + 1].distance_km

\* C5 witness: two alerts returned nearest first, against their id order
NearestFirstAgainstIdOrder ==
    /\ last.op = "get_nearby_alerts"
    /\ Len(last.results) >= 2
    /\ last.results[1].id > last.results[2].id
    /\ last.results[1].distance_km < last.results[2].distance_km

\* C6: among the alerts within the radius, the search returns exactly those
\* with created_at >= now - hours_ago when hours_ago is given (0 included)
\* and with class_id in class_ids when class_ids is a non-empty list; an
\* absent hours_ago, and an absent or empty class_ids, filter nothing.
NearbyFiltersApplied ==
    (last.op = "get_nearby_alerts" /\ last.db_ok) =>
        LET recent(a) == \/ last.hours_ago = None
                         \/ a.created_at >= last.at - last.hours_ago[1]
            wanted(a) == \/ last.class_ids = None
                         \/ last.class_ids[1] = <<>>
                         \/ a.class_id \in {last.class_ids[1][k] : k \in DOMAIN last.class_ids[1]}
            within(a) == /\ bounding_box(a, last.latitude, last.longitude, last.radius_km)
                         /\ ExactDistance(a) <= last.radius_km
        IN  ReturnedIds =
                {alerts[i].id : i \in {k \in DOMAIN alerts :
                    recent(alerts[k]) /\ wanted(alerts[k]) /\ within(alerts[k])}}

\* C6 witness: a search with hours_ago = 0 and an empty class_ids list that
\* returned an alert of the current tick and left an older one out
ZeroHoursAgoFilters ==
    /\ last.op = "get_nearby_alerts"
    /\ last.hours_ago = Some(0)
    /\ last.class_ids = Some(<<>>)
    /\ last.results # <<>>
    /\ Len(last.results) < Len(alerts)

\* C7: the table never holds more than 100 prediction records.
AtMostPredictionLimit == Len(predictions) <= PREDICTION_LIMIT

PredictionIds == {predictions[i].id : i \in DOMAIN predictions}

\* C8: after an insert the new record is present and the surviving records
\* are the 100 most recently created ones.
SurvivorsAreLatestHundred ==
    (last.op = "add_prediction" /\ last.returned # None) =>
        /\ last.returned[1] \in PredictionIds
        /\ PredictionIds = {id \in 1..(next_prediction_id - 1) :
                                id > next_prediction_id - 1 - PREDICTION_LIMIT}

\* C9: a predict request arriving while the background load_model call has
\* not completed sees is_model_ready() false and gets 503 without going on to
\* the pipeline.
PredictRejectedDuringBackgroundLoad ==
    (last.op = "predict_sound" /\ last.background \notin LoadOver) =>
        (~last.ready /\ last.status = 503 /\ last.admitted = 0)

\* C10 as claimed: a get_predictions call made when no load_model call has
\* ever returned fails with a model-not-ready error and starts no load.
GetPredictionsRejectsWhenNotLoaded ==
    (last.op = "get_predictions" /\ ~last.loaded_before) =>
        (~last.loaded_first /\ last.outcome = "Model not ready")

\* C10 as amended: get_predictions calls load_model itself exactly when model
\* or base_model is unset, and then runs the pipeline unless that load raised;
\* with both set it runs the pipeline at once, whether or not a load_model
\* call has ever returned.
GetPredictionsLoadsLazily ==
    last.op = "get_predictions" =>
        /\ last.loaded_first <=> last.unset
        /\ last.loaded_first => loads_started > last.loads_before
        /\ last.outcome = "Failed to load model" => last.loaded_first
        /\ ~last.loaded_first => last.outcome \in {"predictions", "Prediction error"}
        /\ last.outcome \in {"loading", "predictions", "Prediction error",
                             "Failed to load model"}

\* C10 witness: a call that found the model unset, loaded it and predicted
LazyLoadThenPredictions ==
    /\ last.op = "get_predictions"
    /\ ~last.loaded_before
    /\ last.loaded_first
    /\ last.outcome = "predictions"

\* the threads inside a load_model call that has neither returned nor raised
Loading == {t \in Threads : loader[t].pc \notin {"idle"} \cup LoadOver}

\* C11: READY is terminal: once is_model_ready() is true no later step, a
\* repeated load_model call included, makes it false.
ReadyIsTerminal == [][is_model_ready => is_model_ready']_vars

\* C12: a load_model call made after a load has returned performs no reload
\* and leaves model, base_model and model_ready as it found them.
LoadIdempotentOnceSucceeded ==
    \A t \in Threads :
        loader[t].found.loaded =>
            /\ loader[t].pc \in {"base_model", "returned"}
            /\ model = loader[t].found.model
            /\ base_model = loader[t].found.base_model
            /\ model_ready = loader[t].found.model_ready

\* C13: at most one load is in progress at any time.
AtMostOneLoadInProgress == Cardinality(Loading) <= 1

\* C14: a classifier loaded from the file with an output width other than
\* the number of labels never leaves the orchestrator ready, and no pipeline
\* runs against a classifier of another width.
WidthMismatchIsFatal ==
    /\ (model.kind = "trained" /\ model.units # Len(labels)) => ~is_model_ready
    /\ (last.op \in {"get_predictions", "predict_sound_resume"}
            /\ last.model.kind = "trained") =>
        last.model.units = Len(labels)

\* the calls of get_predictions that have come back to their caller
PredictionCallOver ==
    \/ last.op = "predict_sound_resume"
    \/ last.op = "get_predictions" /\ last.outcome # "loading"

\* C15: a get_predictions call that returns gives a mapping whose keys are
\* exactly the labels, each label mapped to the classifier output at the
\* label's position; a call whose pipeline fails raises and returns nothing.
PredictionsTotalOverLabels ==
    PredictionCallOver =>
        IF last.returned # None
        THEN /\ DOMAIN last.returned[1] = {labels[i] : i \in DOMAIN labels}
             /\ \A i \in DOMAIN labels : last.returned[1][labels[i]] = last.scores[i]
        ELSE last.op = "get_predictions" =>
                last.outcome \in {"Prediction error", "Failed to load model"}

\* C15 witness: a call against a classifier one output short of the label
\* list has raised, and the label loop was what raised
ShortClassifierRaises ==
    /\ last.op = "get_predictions"
    /\ last.outcome = "Prediction error"
    /\ last.scores # <<>>
    /\ Len(last.scores) < Len(labels)
    /\ label_predictions(last.scores, 1, <<>>) = None

\* C16: a predict request made after the load has failed for good (the
\* background load raised, nothing is loading, the model is not ready) gets a
\* response other than the transient "still loading" one.
FailureDistinctFromLoading ==
    (/\ last.op = "predict_sound"
     /\ last.background = "raised"
     /\ last.loading = {}
     /\ ~last.ready) =>
        [status |-> last.status, detail |-> last.detail] # NotReadyResponse

\* the stage calls of a task's trainer that failed
FailedStages(task_id) ==
    {i \in DOMAIN trainer[task_id].stages : ~trainer[task_id].stages[i].ok}

\* C17: a stage that fails is the last stage the task runs, no stage is run
\* twice, and a task that ran a failing stage ends with status "failed".
StageFailureAborts ==
    \A task_id \in DOMAIN trainer :
        LET stages == trainer[task_id].stages
        IN  /\ \A i \in FailedStages(task_id) : i = Len(stages)
            /\ \A i, j \in DOMAIN stages : stages[i].stage = stages[j].stage => i = j
            /\ (trainer[task_id].pc = "done" /\ FailedStages(task_id) # {}) =>
                    training_tasks[task_id].status = "failed"

\* C18: a task whose status is "completed" holds in its details a report with
\* the sample counts and the test accuracy.
CompletedHasReport ==
    \A task_id \in DOMAIN training_tasks :
        training_tasks[task_id].status = "completed" =>
            {"num_training_samples", "num_test_samples", "test_accuracy"}
                \subseteq DOMAIN training_tasks[task_id].details

\* the status changes a task may make in one step
StatusStep(from, to) ==
    \/ from = to
    \/ from = "initializing" /\ to = "processing"
    \/ from = "processing" /\ to \in TerminalStatuses

\* C19: a task is created "initializing", moves to "processing" and from
\* there to "completed" or "failed", never leaves "completed" or "failed",
\* and every task created eventually is "completed" or "failed".
TrainingRunsToTheEnd ==
    /\ [][/\ \A task_id \in DOMAIN training_tasks :
                StatusStep(training_tasks[task_id].status,
                           training_tasks'[task_id].status)
          /\ \A task_id \in DOMAIN training_tasks' \ DOMAIN training_tasks :
                training_tasks'[task_id].status = "initializing"]_vars
    /\ \A task_id \in 1..MaxTasks :
            (task_id \in DOMAIN training_tasks) ~>
                (/\ task_id \in DOMAIN training_tasks
                 /\ training_tasks[task_id].status \in TerminalStatuses)

\* C19 witness: one task has completed and another has failed at a stage
OneCompletedOneFailed ==
    \E a, b \in DOMAIN training_tasks :
        /\ training_tasks[a].status = "completed"
        /\ training_tasks[b].status = "failed"
        /\ FailedStages(b) # {}
        /\ trainer[a].pc = "done" /\ trainer[b].pc = "done"

\* C20: for a loaded clip of n samples and c = int(max_duration * sr) >= 1,
\* split_audio_file returns the whole clip as one chunk when the duration
\* n / sr is <= max_duration, and otherwise floor(n / c) chunks, the k-th
\* being samples (k-1)c+1 .. kc; the samples after the last full chunk are
\* dropped.
SplitIntoFullChunks ==
    (last.op = "split_audio_file" /\ last.loaded) =>
        LET n == Len(last.y)
            c == (last.max_duration * last.sr) \div 10
        IN  c >= 1 =>
                IF n * 10 <= last.max_duration * last.sr
                THEN last.chunks = <<last.y>>
                ELSE /\ Len(last.chunks) = n \div c
                     /\ \A k \in DOMAIN last.chunks :
                            last.chunks[k] = SubSeq(last.y, (k - 1) * c + 1, k * c)

\* C20 witness: a clip split into two or more chunks with samples left over
SplitWithRemainder ==
    /\ last.op = "split_audio_file"
    /\ last.loaded
    /\ Len(last.chunks) >= 2
    /\ Len(last.y) > Len(last.chunks) * Len(last.chunks[1])

\* C21: a training request whose label count differs from its file count,
\* that has a label outside 0 .. number of classes - 1, or that carries a
\* file without an allowed extension gets 400; it stages no file and
\* registers no task.
MalformedTrainingRejected ==
    (/\ last.op = "train_model"
     /\ \/ Len(last.labels_list) # Len(last.files)
        \/ \E i \in DOMAIN last.labels_list :
              last.labels_list[i] < 0 \/ last.labels_list[i] >= Len(last.class_names_list)
        \/ \E i \in DOMAIN last.files : last.files[i] \notin {".wav", ".WAV"}) =>
        /\ last.status = 400
        /\ Len(upload_dir) = last.files_before
        /\ next_file_id = last.next_file_before
        /\ Len(training_tasks) = last.tasks_before
        /\ Len(trainer) = last.tasks_before

\* C21 witness: a request whose only fault is an .mp3 file is rejected after
\* an earlier request has been accepted
BadExtensionRejected ==
    /\ last.op = "train_model"
    /\ last.status = 400
    /\ last.detail = "File is not one of the allowed formats"
    /\ last.tasks_before > 0

\* C22: a radius search whose query fails answers with an error, and an
\* empty list is returned only when no stored alert is within the radius.
QueryFailureSurfaced ==
    last.op = "get_nearby_alerts" =>
        /\ ~last.db_ok => last.status # 200
        /\ (last.status = 200 /\ last.results = <<>>
                /\ last.class_ids = None /\ last.hours_ago = None) =>
            \A i \in DOMAIN alerts :
                ~(/\ bounding_box(alerts[i], last.latitude, last.longitude, last.radius_km)
                  /\ ExactDistance(alerts[i]) <= last.radius_km)

\* C23: no two notifiable classes ever share a class_name, and a create for
\* a name that is already stored is answered 400 and leaves the table as it was.
UniqueClassNames ==
    /\ \A i, j \in DOMAIN notifiable_classes :
           notifiable_classes[i].class_name = notifiable_classes[j].class_name => i = j
    /\ (/\ last.op = "create_new_notifiable_class"
        /\ \E i \in DOMAIN last.classes_before :
               last.classes_before[i].class_name = last.class_name)
       => /\ last.status = 400
          /\ notifiable_classes = last.classes_before

DuplicateCreateRejected ==
    /\ last.op = "create_new_notifiable_class"
    /\ last.status = 400
    /\ Len(notifiable_classes) = 2

\* --- SpecSpectrogram: the spectrogram generators over rendered images ---
Modes == {"L", "P", "LA", "RGB", "RGBA"}
Widths == {100, 224, 300, 640}
Heights == {224, 300, 480}
RenderedImages == [mode : Modes, width : Widths, height : Heights]

CreateSpectrogramFromAudio ==
    \E rendered \in RenderedImages : create_spectrogram_from_audio(rendered)

CreateSpectrogram ==
    \E rendered \in RenderedImages : create_spectrogram(rendered)

NextSpectrogram == CreateSpectrogramFromAudio \/ CreateSpectrogram

SpecSpectrogram == Init /\ [][NextSpectrogram]_vars

FallbackLoadCompletes ==
    [][\A t \in Threads :
          /\ (loader[t].pc = "weights" /\ loader'[t] # loader[t]) =>
                 loader'[t].pc = "warm_up"
          /\ (loader[t].pc = "warm_up" /\ loader'[t] # loader[t]) =>
                 /\ loader'[t].pc = "returned"
                 /\ model'.kind # "None"
                 /\ is_model_ready'
      ]_vars

\* the only load_model call so far lost both the classifier file and the
\* weights, and has returned
ReadyOnFreshWeights ==
    /\ loads_started = 1
    /\ loader["background"].pc = "returned"
    /\ model.kind = "untrained"
    /\ is_model_ready

\* --- SpecPool: process_audio_files over small batches ---
MaxPoolFiles == 2
MaxChunks == 2

ChunkRenders == UNION {[1..n -> BOOLEAN] : n \in 0..MaxChunks}
\* a file that split_audio_file fails on has no chunks to render
SubmittedFiles ==
    [label : {0, 1}, split_ok : {TRUE}, renders : ChunkRenders]
        \cup [label : {0, 1}, split_ok : {FALSE}, renders : {<<>>}]
Batches == UNION {[1..n -> SubmittedFiles] : n \in 0..MaxPoolFiles}

\* a trainer prepares its data once
ProcessAudioFiles ==
    /\ executor = NoBatch
    /\ \E files \in Batches : process_audio_files(files)

AsCompleted == \E i \in 1..MaxPoolFiles : as_completed(i)

NextPool == ProcessAudioFiles \/ AsCompleted

SpecPool == Init /\ [][NextPool]_vars

\* the images collected from the file submitted at position i
ImagesOf(i) == SelectSeq(executor.all_images, LAMBDA img : img.file = i)

BatchCollected == executor.collected = DOMAIN executor.files

Range(seq) == {seq[k] : k \in DOMAIN seq}

\* the chunks of a file that create_spectrogram rendered
Rendered(file) == {c \in DOMAIN file.renders : file.renders[c]}

\* a file some step of whose processing fails
Failing(file) == ~file.split_ok \/ \E c \in DOMAIN file.renders : ~file.renders[c]

\* C26 as stated: once the batch is collected, a file whose loading, chunking
\* or rendering failed has no pair in it, and every other file has one pair
\* per chunk.
FailingFileContributesNothing ==
    BatchCollected =>
        \A i \in DOMAIN executor.files :
            IF Failing(executor.files[i])
            THEN ImagesOf(i) = <<>>
            ELSE Len(ImagesOf(i)) = Len(executor.files[i].renders)

\* C26, amended: a file whose loading or chunking fails has no pair, a chunk
\* whose rendering fails has no pair, and once the batch is collected every
\* chunk that rendered, of every file, has its pair, whatever failed elsewhere.
FailuresSkippedBatchCollected ==
    /\ \A k \in DOMAIN executor.all_images :
           LET img == executor.all_images[k]
               file == executor.files[img.file]
           IN  file.split_ok /\ file.renders[img.chunk]
    /\ BatchCollected =>
           \A i \in DOMAIN executor.files :
               LET file == executor.files[i]
               IN  file.split_ok =>
                       /\ {img.chunk : img \in Range(ImagesOf(i))} = Rendered(file)
                       /\ Len(ImagesOf(i)) = Cardinality(Rendered(file))

\* a collected batch of two files: one lost at loading, one with a chunk that
\* rendered and a chunk that did not
PartlyRenderedFileCollected ==
    /\ BatchCollected
    /\ \E i, j \in DOMAIN executor.files :
           /\ ~executor.files[i].split_ok
           /\ executor.files[j].split_ok
           /\ executor.files[j].renders = <<TRUE, FALSE>>
    /\ Len(executor.all_images) = 1

\* the chunks of the batch that rendered: file position and chunk
RenderedOfBatch ==
    {ic \in (DOMAIN executor.files) \X (1..MaxChunks) :
        /\ executor.files[ic[1]].split_ok
        /\ ic[2] \in Rendered(executor.files[ic[1]])}

\* C29: in whatever order the futures complete, all_images and all_labels
\* have the same length, the label at each index is the label submitted with
\* the file the image at that index was rendered from, and once the batch is
\* collected there is one pair per chunk that rendered.
PairsStayAligned ==
    /\ Len(executor.all_images) = Len(executor.all_labels)
    /\ \A k \in DOMAIN executor.all_images :
           executor.all_labels[k] = executor.files[executor.all_images[k].file].label
    /\ BatchCollected => Len(executor.all_images) = Cardinality(RenderedOfBatch)

\* two files with different labels, collected in the reverse of the order
\* they were submitted in, one of them short of a chunk
CollectedOutOfOrder ==
    /\ BatchCollected
    /\ Len(executor.files) = 2
    /\ executor.files[1].label # executor.files[2].label
    /\ executor.files[1].renders = <<TRUE, FALSE>>
    /\ executor.files[2].renders = <<TRUE, TRUE>>
    /\ Len(executor.all_images) = 3
    /\ executor.all_images[1].file = 2

\* --- SpecFiles: predict uploads, their rotation, and one training task ---
MaxFiles == 101

FilesLoad == BackgroundLoad \/ load_model("background", TRUE, REBUILT_UNITS)

FilesTrain ==
    /\ training_tasks = <<>>
    /\ train_model(<<"siren">>, <<0>>, <<".wav">>, TRUE, TRUE)

FilesPredict ==
    /\ pending < MaxPending
    /\ next_file_id <= MaxFiles
    /\ predict_sound(TRUE)

FilesResume ==
    \E file_path \in uploads, pipeline_ok \in BOOLEAN :
        predict_sound_resume(file_path, pipeline_ok, [i \in 1..model.units |-> IF i = 1 THEN 100 ELSE 0])

NextFiles == FilesLoad \/ FilesTrain \/ FilesPredict \/ FilesResume \/ RunTrainingTask

SpecFiles == Init /\ [][NextFiles]_vars

\* the number of *.wav files in a directory
Count(dir) == Len(audio_files_of(dir))

\* C27: after the rotation run for a new upload, the directory holds the
\* files it held before when they were within the cap, and otherwise exactly
\* the MAX_AUDIO_FILES newest of them; the new upload is among them.
RotationKeepsTheCap ==
    (last.op = "predict_sound_resume" /\ exists(last.dir_before, last.file_path)) =>
        LET before == last.dir_before
            kept == IF Count(before) <= MAX_AUDIO_FILES THEN Count(before)
                    ELSE MAX_AUDIO_FILES
        IN  /\ upload_dir = SubSeq(before, Len(before) - kept + 1, Len(before))
            /\ exists(upload_dir, last.file_path)

\* C30: the files staged for a training task are in the upload directory for
\* as long as the task has not reached the stage that reads them.
StagedFilesAwaitTheirTask ==
    \A task_id \in DOMAIN trainer :
        trainer[task_id].pc \in {"queued", "construct", "prepare"} =>
            \A i \in DOMAIN trainer[task_id].audio_files :
                exists(upload_dir, trainer[task_id].audio_files[i])

\* --- SpecUsers: accounts and their privileges ---
MaxUsers == 3

RegisterUser ==
    /\ Len(users) < MaxUsers
    /\ \E db_ok \in BOOLEAN : register_user(db_ok)

UpdateUserPrivilege ==
    \E current_user \in DOMAIN users, user_id \in 1..(Len(users) + 1),
       privilege \in {"user", "admin", "super_admin", "owner"} :
        update_user_privilege(current_user, user_id, privilege)

NextUsers == RegisterUser \/ UpdateUserPrivilege

SpecUsers == Init /\ [][NextUsers]_vars

AdminPrivileges == {UserPrivilege.ADMIN, UserPrivilege.SUPER_ADMIN}

\* C28: an update_user_privilege request whose caller is not a super admin
\* leaves no account with an admin or super_admin privilege it did not have,
\* and changes the privilege of no account that was admin or super_admin.
OnlySuperAdminsTouchAdmins ==
    (/\ last.op = "update_user_privilege"
     /\ last.users_before[last.current_user] # UserPrivilege.SUPER_ADMIN)
    => \A id \in DOMAIN users :
           users[id] # last.users_before[id] =>
               /\ users[id] \notin AdminPrivileges
               /\ last.users_before[id] \notin AdminPrivileges

=============================================================================
